---- MODULE Spec2Model ----
(***************************************************************************)
(* niv_tools: nine assistant tools that wrap the host framework's document *)
(* ORM.  The host database is modelled as a committed store `db` and the   *)
(* session view `txn` (committed rows plus the uncommitted writes of the   *)
(* open transaction).  A document is addressed by <<doctype, name>> and    *)
(* holds a record of the fields the tools read or write.                   *)
(***************************************************************************)
EXTENDS Integers, Sequences, FiniteSets, TLC

VARIABLES db, txn, pre, call, ret, ncalls, walk

vars == <<db, txn, pre, call, ret, ncalls, walk>>

(***************************************************************************)
(* Host ORM primitives, as the tools use them.                             *)
(***************************************************************************)

\* The host ORM calls of the tools that may raise (a validation error, a
\* missing table, a lock timeout, ...).
Sites ==
    {"exists", "get_meta", "get_all", "get_doc", "insert", "delete_doc",
     "has_permission"}

\* At most one kind of host call is failing during one tool call.
Faults(S) == {{}} \cup {{s} : s \in S \cap Sites}

NoDocs == [k \in {} |-> 0]

Put(d, k, rec) == [x \in (DOMAIN d) \cup {k} |-> IF x = k THEN rec ELSE d[x]]

Del(d, k) == [x \in (DOMAIN d) \ {k} |-> d[x]]

\* The DocTypes every site ships with: the tools never create or delete them.
CoreDoctypes ==
    {"DocType", "Custom Field", "Property Setter", "Client Script", "Server Script",
     "Workflow", "Notification"}

\* frappe.db.exists(doctype, name)
Exists(d, doctype, name) ==
    \/ <<doctype, name>> \in DOMAIN d
    \/ doctype = "DocType" /\ name \in CoreDoctypes

\* frappe.db.commit(): the committed store after the session's writes are
\* committed.  frappe.db.rollback(): the session after its uncommitted writes
\* are dropped.
DbCommit(d, t) == t

\* A rollback that drops nothing.
DbRollbackNoop(d, t) == t

DbRollback(d, t) == d

\* SQL  value LIKE '%pat%'  on texts held as sequences of tokens.
Like(text, pat) ==
    \E i \in 0..(Len(text) - Len(pat)) :
        \A j \in 1..Len(pat) : text[i + j] = pat[j]

Names(d, doctype) == {k[2] : k \in {x \in DOMAIN d : x[1] = doctype}}

\* hasattr(doc, f) / getattr(doc, f, default) on a loaded document.
HasAttr(doc, f) == f \in DOMAIN doc

GetAttr(doc, f, default) == IF f \in DOMAIN doc THEN doc[f] ELSE default

\* The envelope the management/testing tools return.
Envelope(ok, err) == [success |-> ok, error |-> err]

Out(d, t, r) == [db |-> d, txn |-> t, ret |-> r]

Returned(v) == [kind |-> "return", val |-> v]

Raised == [kind |-> "raise", val |-> Envelope(FALSE, "exception")]

(***************************************************************************)
(* rollback_changes                                                        *)
(***************************************************************************)

ErrRequired == "doctype and name are required"
ErrNotAllowed == "doctype must be one of"
ErrNoWrite == "No write permission"
ErrNotExist == "does not exist"
ErrBadAction == "action must be 'delete' or 'disable'"
ErrHost == "str(e)"
ErrNoDisable == "does not support disable"
ErrPropertySetter == "Property Setters cannot be disabled, only deleted"
ErrHasDeps == "Cannot delete - has dependencies"
ErrStillEnabled == "Script is still enabled. Disable it first before deleting."
MsgDisabled == "has been disabled"
MsgHidden == "has been hidden"
MsgDeleted == "has been deleted"

RollbackAllowed == {"Custom Field", "Property Setter", "Client Script", "Server Script"}

\* doc.<field> = v; doc.save(); frappe.db.commit()
SaveAndCommit(d, t, key, rec, okMsg) ==
    Out(DbCommit(d, Put(t, key, rec)), Put(t, key, rec), Returned(Envelope(TRUE, okMsg)))

Rollback_disable(d, t, key) ==
    LET dt == key[1]
        doc == t[key]
    IN  IF dt \in {"Client Script", "Server Script"}
        THEN IF HasAttr(doc, "disabled")
             THEN SaveAndCommit(d, t, key, [doc EXCEPT !.disabled = 1], MsgDisabled)
             ELSE IF HasAttr(doc, "enabled")
                  THEN SaveAndCommit(d, t, key, [doc EXCEPT !.enabled = 0], MsgDisabled)
                  ELSE Out(d, t, Returned(Envelope(FALSE, ErrNoDisable)))
        ELSE IF dt = "Custom Field"
             THEN SaveAndCommit(d, t, key, [doc EXCEPT !.hidden = 1], MsgHidden)
             ELSE Out(d, t, Returned(Envelope(FALSE, ErrPropertySetter)))

\* The names the two dependency queries return; a query that raises is ignored.
Rollback_check_dependencies(t, F, key) ==
    LET doc == t[key]
        fieldname == GetAttr(doc, "fieldname", "")
        target_dt == GetAttr(doc, "dt", "")
        refs == IF "get_all" \in F THEN {}
                ELSE {n \in Names(t, "Custom Field") :
                        Like(t[<<"Custom Field", n>>].fetch_from, <<target_dt, ".", fieldname>>)}
        scripts == IF "get_all" \in F THEN {}
                   ELSE {n \in Names(t, "Server Script") :
                           /\ t[<<"Server Script", n>>].disabled = 0
                           /\ Like(t[<<"Server Script", n>>].script, <<fieldname>>)}
    IN  IF key[1] = "Custom Field" /\ fieldname # "" /\ target_dt # ""
        THEN [cf |-> refs, ss |-> scripts]
        ELSE [cf |-> {}, ss |-> {}]

\* _delete without the check that a script is disabled.
Rollback_delete_unguarded(d, t, F, key) ==
    LET deps == Rollback_check_dependencies(t, F, key)
    IN  IF deps.cf # {} \/ deps.ss # {}
        THEN Out(d, t, Returned(Envelope(FALSE, ErrHasDeps)))
        ELSE IF "delete_doc" \in F
             THEN Out(d, DbRollback(d, t), Returned(Envelope(FALSE, ErrHost)))
             ELSE Out(DbCommit(d, Del(t, key)), Del(t, key), Returned(Envelope(TRUE, MsgDeleted)))

Rollback_delete(d, t, F, key) ==
    LET dt == key[1]
        doc == t[key]
        deps == Rollback_check_dependencies(t, F, key)
        is_disabled == GetAttr(doc, "disabled", 0) = 1
    IN  IF deps.cf # {} \/ deps.ss # {}
        THEN Out(d, t, Returned(Envelope(FALSE, ErrHasDeps)))
        ELSE IF dt \in {"Client Script", "Server Script"} /\ ~is_disabled
             THEN Out(d, t, Returned(Envelope(FALSE, ErrStillEnabled)))
             ELSE IF "delete_doc" \in F
                  THEN Out(d, DbRollback(d, t), Returned(Envelope(FALSE, ErrHost)))
                  ELSE Out(DbCommit(d, Del(t, key)), Del(t, key), Returned(Envelope(TRUE, MsgDeleted)))

RollbackChanges_execute(d, t, F, perm, doctype, name, action) ==
    IF doctype = "" \/ name = ""
    THEN Out(d, t, Returned(Envelope(FALSE, ErrRequired)))
    ELSE IF doctype \notin RollbackAllowed
    THEN Out(d, t, Returned(Envelope(FALSE, ErrNotAllowed)))
    ELSE IF "has_permission" \in F \/ <<doctype, "write">> \notin perm
    THEN Out(d, t, Returned(Envelope(FALSE, ErrNoWrite)))
    ELSE IF "exists" \in F
    THEN Out(d, t, Returned(Envelope(FALSE, ErrHost)))
    ELSE IF ~Exists(t, doctype, name)
    THEN Out(d, t, Returned(Envelope(FALSE, ErrNotExist)))
    ELSE IF "get_doc" \in F
    THEN Out(d, t, Returned(Envelope(FALSE, ErrHost)))
    ELSE IF action = "disable"
    THEN Rollback_disable(d, t, <<doctype, name>>)
    ELSE IF action = "delete"
    THEN Rollback_delete(d, t, F, <<doctype, name>>)
    ELSE Out(d, t, Returned(Envelope(FALSE, ErrBadAction)))

(***************************************************************************)
(* build_blueprint                                                         *)
(***************************************************************************)

MaxBlueprintSteps == 50

ErrNoSteps == "No build steps provided"
ErrTooMany == "Too many steps (max 50). Break into smaller modules."

NoData == [k \in {} |-> 0]

\* "{}-{}".format(dt, fieldname) over the names of the model.
FormatDash(dt, fn) ==
    CASE dt = "A" /\ fn = "f" -> "A-f"
      [] dt = "A" /\ fn = "g" -> "A-g"
      [] dt = "B" /\ fn = "f" -> "B-f"
      [] dt = "B" /\ fn = "g" -> "B-g"
      [] OTHER -> "-"

\* Document records, with the defaults the host fills in.
CustomField(dt, fieldname, fetch_from) ==
    [dt |-> dt, fieldname |-> fieldname, fetch_from |-> fetch_from, hidden |-> 0]

ServerScript(disabled, script) == [disabled |-> disabled, script |-> script]

ClientScript(enabled, script) == [enabled |-> enabled, script |-> script]

Workflow(is_active) == [is_active |-> is_active]

Notification(enabled) == [enabled |-> enabled]

DocTypeDoc(custom, nfields, perms, links) ==
    [custom |-> custom, nfields |-> nfields, perms |-> perms, links |-> links]

\* frappe.get_doc({"doctype": doctype, **data})
NewDoc(doctype, data) ==
    CASE doctype = "Custom Field" ->
           CustomField(GetAttr(data, "dt", ""), GetAttr(data, "fieldname", ""),
                       GetAttr(data, "fetch_from", <<>>))
      [] doctype = "Server Script" ->
           ServerScript(GetAttr(data, "disabled", 0), GetAttr(data, "script", <<>>))
      [] doctype = "Client Script" ->
           ClientScript(GetAttr(data, "enabled", 1), GetAttr(data, "script", <<>>))
      [] doctype = "Workflow" -> Workflow(GetAttr(data, "is_active", 0))
      [] doctype = "Notification" -> Notification(GetAttr(data, "enabled", 1))
      [] OTHER -> data

\* The name the inserted document gets: the one given, the one _execute_step
\* sets for a Custom Field, or the host's field:workflow_name rule.
StepName(doctype, data) ==
    IF GetAttr(data, "name", "") # "" THEN data.name
    ELSE IF doctype = "Custom Field" /\ GetAttr(data, "dt", "") # ""
                                     /\ GetAttr(data, "fieldname", "") # ""
    THEN FormatDash(data.dt, data.fieldname)
    ELSE IF doctype = "Workflow" THEN GetAttr(data, "workflow_name", "")
    ELSE ""

Entry(status, name) == [status |-> status, name |-> name]

StepOut(d, t, status, name) == [db |-> d, txn |-> t, entry |-> Entry(status, name)]

Build_validate_step(t, doctype, data) ==
    IF ~Exists(t, "DocType", doctype) THEN FALSE
    ELSE IF doctype = "DocType" /\ GetAttr(data, "name", "") # ""
                                /\ Exists(t, "DocType", data.name)
    THEN FALSE
    ELSE IF doctype = "Custom Field" /\ GetAttr(data, "dt", "") # ""
                                     /\ GetAttr(data, "fieldname", "") # ""
                                     /\ Exists(t, "Custom Field", FormatDash(data.dt, data.fieldname))
    THEN FALSE
    ELSE IF doctype = "Workflow" /\ GetAttr(data, "workflow_name", "") # ""
                                 /\ Exists(t, "Workflow", data.workflow_name)
    THEN FALSE
    ELSE TRUE

\* The result dictionary of _create_doctype, or a raise (status FAILED).
Build_create_doctype(d, t, F, data) ==
    LET name == GetAttr(data, "name", "")
        doc == DocTypeDoc(GetAttr(data, "custom", 1), GetAttr(data, "nfields", 0),
                          GetAttr(data, "perms", 1), GetAttr(data, "links", <<>>))
    IN  IF name = "" THEN StepOut(d, t, "SUCCESS", "")
        ELSE IF "exists" \in F THEN StepOut(d, t, "FAILED", "")
        ELSE IF Exists(t, "DocType", name) THEN StepOut(d, t, "SUCCESS", name)
        ELSE IF "get_doc" \in F \/ "insert" \in F THEN StepOut(d, t, "FAILED", "")
        ELSE StepOut(DbCommit(d, Put(t, <<"DocType", name>>, doc)),
                     Put(t, <<"DocType", name>>, doc), "SUCCESS", name)

Build_execute_step(d, t, F, doctype, data) ==
    LET name == StepName(doctype, data)
        key == <<doctype, name>>
    IN  IF doctype = "DocType" THEN Build_create_doctype(d, t, F, data)
        ELSE IF "get_doc" \in F \/ ~Exists(t, "DocType", doctype)
        THEN StepOut(d, t, "FAILED", "")
        ELSE IF "insert" \in F \/ name = "" THEN StepOut(d, t, "FAILED", "")
        ELSE IF key \in DOMAIN t THEN StepOut(DbCommit(d, t), t, "SUCCESS", name)
        ELSE StepOut(DbCommit(d, Put(t, key, NewDoc(doctype, data))),
                     Put(t, key, NewDoc(doctype, data)), "SUCCESS", name)

\* A pass of the loop that executes the step whatever dry_run says.
Build_step_always_executes(d, t, F, dry_run, step) ==
    IF step.doctype = "" \/ step.data = NoData THEN StepOut(d, t, "SKIPPED", "")
    ELSE Build_execute_step(d, t, F, step.doctype, step.data)

\* One pass of the loop over steps.
Build_step(d, t, F, dry_run, step) ==
    IF step.doctype = "" \/ step.data = NoData THEN StepOut(d, t, "SKIPPED", "")
    ELSE IF dry_run
    THEN StepOut(d, t, IF Build_validate_step(t, step.doctype, step.data)
                       THEN "VALID" ELSE "INVALID", "")
    ELSE Build_execute_step(d, t, F, step.doctype, step.data)

RECURSIVE Build_loop(_, _, _, _, _, _, _)
Build_loop(d, t, F, dry_run, steps, i, log) ==
    IF i > Len(steps) THEN [db |-> d, txn |-> t, log |-> log]
    ELSE LET o == Build_step(d, t, F, dry_run, steps[i])
         IN  Build_loop(o.db, o.txn, F, dry_run, steps, i + 1, Append(log, o.entry))

Summary(err, dry_run, log) == [error |-> err, dry_run |-> dry_run, build_log |-> log]

\* _validate_step is called outside the try block: its first host call that
\* raises ends execute with the exception.
BuildBlueprint_execute(d, t, F, steps, dry_run) ==
    IF Len(steps) = 0 THEN Out(d, t, Returned(Summary(ErrNoSteps, dry_run, <<>>)))
    ELSE IF Len(steps) > MaxBlueprintSteps
    THEN Out(d, t, Returned(Summary(ErrTooMany, dry_run, <<>>)))
    ELSE IF /\ dry_run
            /\ "exists" \in F
            /\ \E i \in 1..Len(steps) : steps[i].doctype # "" /\ steps[i].data # NoData
    THEN Out(d, t, Raised)
    ELSE LET o == Build_loop(d, t, F, dry_run, steps, 1, <<>>)
         IN  Out(o.db, o.txn, Returned(Summary("", dry_run, o.log)))

(***************************************************************************)
(* test_created_item                                                       *)
(***************************************************************************)

ErrNoRead == "No read permission"
ErrNoCreate == "No create permission"
ErrUnknownTest == "Unknown test_type"
ErrValidation == "Validation failed"
ErrNotScript == "test only applies to scripts"
ErrEmptyScript == "Script is empty"
ErrIssues == "issues"
MsgValidated == "Test record created and deleted successfully"

\* The name the host gives the test record on insert.
TestRecord == "TEST-0001"

Count(text, tok) == Cardinality({i \in 1..Len(text) : text[i] = tok})

\* compile(script, ..., "exec") raises SyntaxError on a script holding a
\* token that is no Python.
Compiles(script) == \A i \in 1..Len(script) : script[i] # "<bad>"

TestResult(ok, err, info) == [success |-> ok, error |-> err, info |-> info]

Test_exists(d, t, F, doctype, name) ==
    IF "exists" \in F THEN Out(d, t, Returned(TestResult(FALSE, ErrHost, NoData)))
    ELSE IF ~Exists(t, doctype, name)
    THEN Out(d, t, Returned(TestResult(FALSE, ErrNotExist, NoData)))
    ELSE IF "get_doc" \in F THEN Out(d, t, Returned(TestResult(FALSE, ErrHost, NoData)))
    ELSE LET doc == IF <<doctype, name>> \in DOMAIN t THEN t[<<doctype, name>>] ELSE NoData
         IN  IF doctype \in {"Client Script", "Server Script"}
             THEN Out(d, t, Returned(TestResult(TRUE, "",
                    [enabled |-> \/ GetAttr(doc, "enabled", 0) # 0
                                 \/ GetAttr(doc, "disabled", 0) = 0])))
             ELSE Out(d, t, Returned(TestResult(TRUE, "", NoData)))

Test_validate(d, t, F, perm, doctype, name) ==
    LET target_doctype == IF doctype = "DocType" THEN name ELSE doctype
        key == <<target_doctype, TestRecord>>
        inserted == Put(t, key, NewDoc(target_doctype, NoData))
        deleted == Del(inserted, key)
    IN  IF "exists" \in F THEN Out(d, t, Returned(TestResult(FALSE, ErrHost, NoData)))
        ELSE IF ~Exists(t, "DocType", target_doctype)
        THEN Out(d, t, Returned(TestResult(FALSE, ErrNotExist, NoData)))
        ELSE IF "has_permission" \in F \/ <<target_doctype, "create">> \notin perm
        THEN Out(d, t, Returned(TestResult(FALSE, ErrNoCreate, NoData)))
        ELSE IF "get_meta" \in F THEN Out(d, t, Returned(TestResult(FALSE, ErrHost, NoData)))
        ELSE IF "insert" \in F \/ key \in DOMAIN t
        THEN Out(d, DbRollback(d, t), Returned(TestResult(FALSE, ErrValidation, NoData)))
        ELSE IF "delete_doc" \in F
        THEN Out(d, DbRollback(d, inserted), Returned(TestResult(FALSE, ErrValidation, NoData)))
        ELSE Out(DbCommit(d, deleted), deleted, Returned(TestResult(TRUE, MsgValidated, NoData)))

Test_render(d, t, F, doctype, name) ==
    IF doctype \notin {"Client Script", "Server Script"}
    THEN Out(d, t, Returned(TestResult(FALSE, ErrNotScript, NoData)))
    ELSE IF "exists" \in F THEN Out(d, t, Returned(TestResult(FALSE, ErrHost, NoData)))
    ELSE IF ~Exists(t, doctype, name)
    THEN Out(d, t, Returned(TestResult(FALSE, ErrNotExist, NoData)))
    ELSE IF "get_doc" \in F THEN Out(d, t, Returned(TestResult(FALSE, ErrHost, NoData)))
    ELSE LET script == GetAttr(t[<<doctype, name>>], "script", <<>>)
         IN  IF script = <<>>
             THEN Out(d, t, Returned(TestResult(FALSE, ErrEmptyScript, NoData)))
             ELSE IF doctype = "Server Script" /\ ~Compiles(script)
             THEN Out(d, t, Returned(TestResult(FALSE, ErrIssues, NoData)))
             ELSE IF doctype = "Client Script"
                     /\ (\/ Count(script, "{") # Count(script, "}")
                         \/ Count(script, "(") # Count(script, ")")
                         \/ /\ Like(script, <<"frappe", ".", "call">>)
                            /\ Count(script, "callback") = 0
                            /\ ~Like(script, <<".", "then">>))
             THEN Out(d, t, Returned(TestResult(FALSE, ErrIssues, NoData)))
             ELSE Out(d, t, Returned(TestResult(TRUE, "", NoData)))

Test_execute(d, t, F, doctype, name) ==
    IF doctype # "Server Script"
    THEN Out(d, t, Returned(TestResult(FALSE, ErrNotScript, NoData)))
    ELSE IF "exists" \in F THEN Out(d, t, Returned(TestResult(FALSE, ErrHost, NoData)))
    ELSE IF ~Exists(t, "Server Script", name)
    THEN Out(d, t, Returned(TestResult(FALSE, ErrNotExist, NoData)))
    ELSE IF "get_doc" \in F THEN Out(d, t, Returned(TestResult(FALSE, ErrHost, NoData)))
    ELSE LET doc == t[<<doctype, name>>]
             script == GetAttr(doc, "script", <<>>)
         IN  IF script = <<>>
             THEN Out(d, t, Returned(TestResult(FALSE, ErrEmptyScript, NoData)))
             ELSE IF ~Compiles(script)
             THEN Out(d, t, Returned(TestResult(FALSE, ErrIssues, NoData)))
             ELSE Out(d, t, Returned(TestResult(TRUE, "",
                        [enabled |-> GetAttr(doc, "disabled", 0) = 0])))

TestCreatedItem_execute(d, t, F, perm, doctype, name, test_type) ==
    IF doctype = "" \/ name = ""
    THEN Out(d, t, Returned(TestResult(FALSE, ErrRequired, NoData)))
    ELSE IF "has_permission" \in F \/ <<doctype, "read">> \notin perm
    THEN Out(d, t, Returned(TestResult(FALSE, ErrNoRead, NoData)))
    ELSE IF test_type = "exists" THEN Test_exists(d, t, F, doctype, name)
    ELSE IF test_type = "validate" THEN Test_validate(d, t, F, perm, doctype, name)
    ELSE IF test_type = "render" THEN Test_render(d, t, F, doctype, name)
    ELSE IF test_type = "execute" THEN Test_execute(d, t, F, doctype, name)
    ELSE Out(d, t, Returned(TestResult(FALSE, ErrUnknownTest, NoData)))

(***************************************************************************)
(* verify_build                                                            *)
(***************************************************************************)

ErrNoComponents == "No components to verify"

TestOut(d, t, status) == [db |-> d, txn |-> t, status |-> status]

\* frappe.get_meta(doctype): a DocType of the host's own is not custom and
\* has fields and permissions.
Meta(t, doctype) ==
    IF <<"DocType", doctype>> \in DOMAIN t THEN t[<<"DocType", doctype>>]
    ELSE DocTypeDoc(0, 1, 1, <<>>)

\* Step 4 of _test_doctype: create, read and delete a test record.  A raise
\* is caught without a rollback: the inserted record stays in the session.
Verify_crud(d, t, F, name) ==
    LET key == <<name, TestRecord>>
        inserted == Put(t, key, NewDoc(name, NoData))
        deleted == Del(inserted, key)
    IN  IF "get_doc" \in F \/ "insert" \in F \/ key \in DOMAIN t THEN TestOut(d, t, "FAIL")
        ELSE IF "delete_doc" \in F THEN TestOut(d, inserted, "FAIL")
        ELSE TestOut(DbCommit(d, deleted), deleted, "PASS")

Verify_test_doctype(d, t, F, name, auto_fix) ==
    LET meta == Meta(t, name)
        key == <<"DocType", name>>
        fixed == Put(t, key, [meta EXCEPT !.perms = 1])
    IN  IF "exists" \in F \/ ~Exists(t, "DocType", name) THEN TestOut(d, t, "FAIL")
        ELSE IF "get_meta" \in F \/ meta.nfields = 0 THEN TestOut(d, t, "FAIL")
        ELSE IF meta.perms = 0
        THEN IF auto_fix /\ "get_doc" \notin F
             THEN TestOut(DbCommit(d, fixed), fixed, "FIXED")
             ELSE TestOut(d, t, "FAIL")
        ELSE IF meta.custom # 0 THEN Verify_crud(d, t, F, name)
        ELSE TestOut(d, t, "PASS")

\* The component test that applies its fix whatever auto_fix says.
Verify_test_flag_always_fixes(d, t, F, key, auto_fix, off, on, ok) ==
    IF "exists" \in F \/ key \notin DOMAIN t THEN TestOut(d, t, "FAIL")
    ELSE IF "get_doc" \in F THEN TestOut(d, t, "FAIL")
    ELSE IF off THEN TestOut(DbCommit(d, Put(t, key, on)), Put(t, key, on), "FIXED")
    ELSE TestOut(d, t, IF ok THEN "PASS" ELSE "FAIL")

\* The shape _test_server_script, _test_client_script, _test_workflow and
\* _test_notification share: the component is loaded, and when its flag says
\* it is off the test fails, or with auto_fix sets the flag and saves.
Verify_test_flag(d, t, F, key, auto_fix, off, on, ok) ==
    IF "exists" \in F \/ key \notin DOMAIN t THEN TestOut(d, t, "FAIL")
    ELSE IF "get_doc" \in F THEN TestOut(d, t, "FAIL")
    ELSE IF off
    THEN IF auto_fix
         THEN TestOut(DbCommit(d, Put(t, key, on)), Put(t, key, on), "FIXED")
         ELSE TestOut(d, t, "FAIL")
    ELSE TestOut(d, t, IF ok THEN "PASS" ELSE "FAIL")

Verify_test_server_script(d, t, F, name, auto_fix) ==
    LET key == <<"Server Script", name>>
        ss == IF key \in DOMAIN t THEN t[key] ELSE ServerScript(0, <<>>)
    IN  Verify_test_flag(d, t, F, key, auto_fix, ss.disabled # 0,
                         [ss EXCEPT !.disabled = 0],
                         ss.script # <<>> /\ Compiles(ss.script))

Verify_test_client_script(d, t, F, name, auto_fix) ==
    LET key == <<"Client Script", name>>
        cs == IF key \in DOMAIN t THEN t[key] ELSE ClientScript(1, <<>>)
    IN  Verify_test_flag(d, t, F, key, auto_fix, cs.enabled = 0,
                         [cs EXCEPT !.enabled = 1],
                         /\ cs.script # <<>>
                         /\ Count(cs.script, "{") = Count(cs.script, "}")
                         /\ Count(cs.script, "(") = Count(cs.script, ")"))

Verify_test_workflow(d, t, F, name, auto_fix) ==
    LET key == <<"Workflow", name>>
        wf == IF key \in DOMAIN t THEN t[key] ELSE Workflow(1)
    IN  Verify_test_flag(d, t, F, key, auto_fix, wf.is_active = 0,
                         [wf EXCEPT !.is_active = 1], TRUE)

Verify_test_notification(d, t, F, name, auto_fix) ==
    LET key == <<"Notification", name>>
        notif == IF key \in DOMAIN t THEN t[key] ELSE Notification(1)
    IN  Verify_test_flag(d, t, F, key, auto_fix, notif.enabled = 0,
                         [notif EXCEPT !.enabled = 1], TRUE)

\* _test_custom_field, _test_report, _test_print_format and
\* _test_property_setter only read.
Verify_test_readonly(d, t, F, type, name) ==
    IF "exists" \in F \/ <<type, name>> \notin DOMAIN t THEN TestOut(d, t, "FAIL")
    ELSE IF "get_doc" \in F \/ "get_meta" \in F THEN TestOut(d, t, "FAIL")
    ELSE TestOut(d, t, "PASS")

Verify_test_component(d, t, F, type, name, auto_fix) ==
    CASE type = "DocType" -> Verify_test_doctype(d, t, F, name, auto_fix)
      [] type = "Server Script" -> Verify_test_server_script(d, t, F, name, auto_fix)
      [] type = "Client Script" -> Verify_test_client_script(d, t, F, name, auto_fix)
      [] type = "Workflow" -> Verify_test_workflow(d, t, F, name, auto_fix)
      [] type = "Notification" -> Verify_test_notification(d, t, F, name, auto_fix)
      [] type \in {"Custom Field", "Report", "Print Format", "Property Setter"} ->
           Verify_test_readonly(d, t, F, type, name)
      [] OTHER -> TestOut(d, t, "SKIP")

RECURSIVE Verify_loop(_, _, _, _, _, _, _)
Verify_loop(d, t, F, auto_fix, components, i, results) ==
    IF i > Len(components) THEN [db |-> d, txn |-> t, results |-> results]
    ELSE LET comp == components[i]
             o == IF comp.type = "" \/ comp.name = "" THEN TestOut(d, t, "SKIP")
                  ELSE Verify_test_component(d, t, F, comp.type, comp.name, auto_fix)
         IN  Verify_loop(o.db, o.txn, F, auto_fix, components, i + 1,
                         Append(results, o.status))

VerifyBuild_execute(d, t, F, components, auto_fix) ==
    IF Len(components) = 0
    THEN Out(d, t, Returned([error |-> ErrNoComponents, results |-> <<>>]))
    ELSE LET o == Verify_loop(d, t, F, auto_fix, components, 1, <<>>)
         IN  Out(o.db, o.txn, Returned([error |-> "", results |-> o.results]))

(***************************************************************************)
(* map_relationships                                                       *)
(***************************************************************************)

DepthCap == 3

FollowCap == 5

ErrDoctypeRequired == "doctype is required"
ErrDoctypeNotFound == "DocType not found"

\* links_to of a Dynamic Link field: "DYNAMIC (via <options>)".
Dynamic == "DYNAMIC (via link_doctype)"

\* min() that lets its first argument through.
MinUncapped(a, b) == a

Min(a, b) == IF a < b THEN a ELSE b

\* links[:n]
Take(links, n) == SubSeq(links, 1, Min(Len(links), n))

NoDetail == [k \in {} |-> 0]

\* The result of _map_doctype: `detail` is linked_doctypes_detail, a key the
\* result has only when the dictionary is not empty.
MapResult(doctype, circular, links_to, detail) ==
    [doctype |-> doctype, circular |-> circular, links_to |-> links_to, detail |-> detail]

RECURSIVE Map_doctype(_, _, _, _)
RECURSIVE Map_deeper(_, _, _, _, _, _)
\* _map_doctype: `visited` is one set shared by the whole walk, so the
\* operator returns it with the result.
Map_doctype(t, doctype, depth, visited) ==
    IF doctype \in visited
    THEN [result |-> MapResult(doctype, TRUE, <<>>, NoDetail), visited |-> visited]
    ELSE LET links_to == Meta(t, doctype).links
             m == IF depth > 1 /\ links_to # <<>>
                  THEN Map_deeper(t, Take(links_to, FollowCap), 1, depth,
                                  visited \cup {doctype}, NoDetail)
                  ELSE [deeper |-> NoDetail, visited |-> visited \cup {doctype}]
         IN  [result |-> MapResult(doctype, FALSE, links_to, m.deeper),
              visited |-> m.visited]

\* The loop `for link in links_to[:5]` of _map_doctype.
Map_deeper(t, links, i, depth, visited, deeper) ==
    IF i > Len(links) THEN [deeper |-> deeper, visited |-> visited]
    ELSE LET target == links[i]
         IN  IF target # "" /\ target # Dynamic /\ target \notin visited
             THEN LET m == Map_doctype(t, target, depth - 1, visited)
                  IN  Map_deeper(t, links, i + 1, depth, m.visited,
                                 Put(deeper, target, m.result))
             ELSE Map_deeper(t, links, i + 1, depth, visited, deeper)

\* execute has no try block: a host call that raises ends it.
MapRelationships_execute(d, t, F, doctype, depth_arg) ==
    LET depth == Min(depth_arg, DepthCap)
        none == MapResult(doctype, FALSE, <<>>, NoDetail)
    IN  IF doctype = ""
        THEN Out(d, t, Returned([error |-> ErrDoctypeRequired, result |-> none]))
        ELSE IF "exists" \in F THEN Out(d, t, Raised)
        ELSE IF ~Exists(t, "DocType", doctype)
        THEN Out(d, t, Returned([error |-> ErrDoctypeNotFound, result |-> none]))
        ELSE IF "get_meta" \in F THEN Out(d, t, Raised)
        ELSE Out(d, t, Returned([error |-> "",
                                 result |-> Map_doctype(t, doctype, depth, {}).result]))

(***************************************************************************)
(* field_explorer                                                          *)
(***************************************************************************)

ErrNoReadPermission == "No read permission"
ErrFieldNotFound == "Field not found"

\* meta.get_field: the fields the model tells apart are the custom fields.
FieldNames(t, doctype) ==
    {t[k].fieldname : k \in {x \in DOMAIN t : x[1] = "Custom Field" /\ t[x].dt = doctype}}

\* execute has no try block: a host call that raises ends it.
FieldExplorer_execute(d, t, F, perm, doctype, field) ==
    IF "exists" \in F THEN Out(d, t, Raised)
    ELSE IF ~Exists(t, "DocType", doctype)
    THEN Out(d, t, Returned(Envelope(FALSE, ErrDoctypeNotFound)))
    ELSE IF "has_permission" \in F THEN Out(d, t, Raised)
    ELSE IF <<doctype, "read">> \notin perm
    THEN Out(d, t, Returned(Envelope(FALSE, ErrNoReadPermission)))
    ELSE IF "get_meta" \in F THEN Out(d, t, Raised)
    ELSE IF field # "" /\ field \notin FieldNames(t, doctype)
    THEN Out(d, t, Returned(Envelope(FALSE, ErrFieldNotFound)))
    ELSE Out(d, t, Returned(Envelope(TRUE, "")))

(***************************************************************************)
(* universal_search                                                        *)
(***************************************************************************)

ErrEmptyQuery == "Empty search query"

\* PRIORITY_DOCTYPES, cut to two of its entries.
PRIORITY_DOCTYPES == <<"Customer", "Item">>

Range(seq) == {seq[i] : i \in 1..Len(seq)}

\* The records of `doctype` one of whose searched fields holds the query.
Matching(t, doctype, query) ==
    {n \in Names(t, doctype) :
        n = query \/ Like(GetAttr(t[<<doctype, n>>], "text", <<>>), <<query>>)}

\* order_by="modified desc"
RECURSIVE ByModified(_, _, _)
ByModified(t, doctype, names) ==
    IF names = {} THEN <<>>
    ELSE LET n == CHOOSE x \in names : \A y \in names :
                     GetAttr(t[<<doctype, y>>], "modified", 0)
                       <= GetAttr(t[<<doctype, x>>], "modified", 0)
         IN  <<n>> \o ByModified(t, doctype, names \ {n})

\* frappe.get_all(doctype, or_filters=..., limit=limit): the host applies no
\* limit when limit is 0.
SearchRows(t, doctype, query, limit) ==
    LET rows == ByModified(t, doctype, Matching(t, doctype, query))
        cut == IF limit = 0 THEN rows ELSE Take(rows, limit)
    IN  [i \in 1..Len(cut) |-> <<doctype, cut[i]>>]

\* _search_dt without the test of the read permission.
Search_dt_unchecked(t, F, perm, doctype, query, limit) ==
    IF F \cap {"exists", "has_permission", "get_meta", "get_all"} # {} THEN <<>>
    ELSE IF ~Exists(t, "DocType", doctype) THEN <<>>
    ELSE SearchRows(t, doctype, query, limit)

\* _search_dt: every failure gives an empty list.
Search_dt(t, F, perm, doctype, query, limit) ==
    IF F \cap {"exists", "has_permission", "get_meta", "get_all"} # {} THEN <<>>
    ELSE IF ~Exists(t, "DocType", doctype) \/ <<doctype, "read">> \notin perm THEN <<>>
    ELSE SearchRows(t, doctype, query, limit)

RECURSIVE Search_priority(_, _, _, _, _, _)
Search_priority(t, F, perm, query, limit, i) ==
    IF i > Len(PRIORITY_DOCTYPES) THEN <<>>
    ELSE Search_dt(t, F, perm, PRIORITY_DOCTYPES[i], query, limit)
         \o Search_priority(t, F, perm, query, limit, i + 1)

RECURSIVE SetToSeq(_)
SetToSeq(S) ==
    IF S = {} THEN <<>>
    ELSE LET x == CHOOSE y \in S : TRUE IN <<x>> \o SetToSeq(S \ {x})

RECURSIVE Search_remaining(_, _, _, _, _, _, _, _)
Search_remaining(t, F, perm, query, limit, remaining, i, results) ==
    IF i > Len(remaining) \/ Len(results) >= limit THEN results
    ELSE Search_remaining(t, F, perm, query, limit, remaining, i + 1,
                          results \o Search_dt(t, F, perm, remaining[i], query, 3))

RECURSIVE Unique(_, _)
Unique(results, seen) ==
    IF results = <<>> THEN <<>>
    ELSE IF Head(results) \in seen THEN Unique(Tail(results), seen)
    ELSE <<Head(results)>> \o Unique(Tail(results), seen \cup {Head(results)})

\* seq[:n], as the language slices: a negative n counts from the end.
PySlice(seq, n) ==
    IF n >= 0 THEN Take(seq, n)
    ELSE SubSeq(seq, 1, IF Len(seq) + n > 0 THEN Len(seq) + n ELSE 0)

SearchOut(ok, err, results, count) ==
    [success |-> ok, error |-> err, results |-> results, count |-> count]

\* _global_search: the query for the list of DocTypes is outside any try.
Search_global(d, t, F, perm, query, limit) ==
    LET per_dt_limit == IF limit \div 6 > 3 THEN limit \div 6 ELSE 3
        first == Search_priority(t, F, perm, query, per_dt_limit, 1)
        all_dts == SetToSeq(Names(t, "DocType") \ Range(PRIORITY_DOCTYPES))
        results == IF Len(first) < limit
                   THEN Search_remaining(t, F, perm, query, limit, all_dts, 1, first)
                   ELSE first
        unique == Unique(results, {})
    IN  IF Len(first) < limit /\ "get_all" \in F THEN Out(d, t, Raised)
        ELSE Out(d, t, Returned(SearchOut(TRUE, "", PySlice(unique, limit),
                                          Min(Len(unique), limit))))

\* _search_single_doctype_full has no try block.
Search_single_doctype_full(d, t, F, perm, doctype, query, limit) ==
    IF "exists" \in F THEN Out(d, t, Raised)
    ELSE IF ~Exists(t, "DocType", doctype)
    THEN Out(d, t, Returned(SearchOut(FALSE, ErrDoctypeNotFound, <<>>, 0)))
    ELSE IF "has_permission" \in F THEN Out(d, t, Raised)
    ELSE IF <<doctype, "read">> \notin perm
    THEN Out(d, t, Returned(SearchOut(FALSE, ErrNoReadPermission, <<>>, 0)))
    ELSE IF "get_meta" \in F \/ "get_all" \in F THEN Out(d, t, Raised)
    ELSE LET results == SearchRows(t, doctype, query, limit)
         IN  Out(d, t, Returned(SearchOut(TRUE, "", results, Len(results))))

UniversalSearch_execute(d, t, F, perm, query, doctype, limit) ==
    IF query = "" THEN Out(d, t, Returned(SearchOut(FALSE, ErrEmptyQuery, <<>>, 0)))
    ELSE IF doctype # "" THEN Search_single_doctype_full(d, t, F, perm, doctype, query, limit)
    ELSE Search_global(d, t, F, perm, query, limit)

(***************************************************************************)
(* monitor_errors, introspect_system                                       *)
(***************************************************************************)

ErrNoErrorLog == "No read permission for Error Log"
ErrLinksDoctype == "doctype is required for links scope"

\* The whole body of execute is in a try block.
MonitorErrors_execute(d, t, F, perm) ==
    IF "has_permission" \in F \/ <<"Error Log", "read">> \notin perm
    THEN Out(d, t, Returned(Envelope(FALSE, ErrNoErrorLog)))
    ELSE IF "get_all" \in F THEN Out(d, t, Returned(Envelope(FALSE, ErrHost)))
    ELSE Out(d, t, Returned(Envelope(TRUE, "")))

\* The whole body of execute is in a try block, and so is each section.
IntrospectSystem_execute(d, t, F, scope, doctype) ==
    IF scope = "links" /\ doctype = ""
    THEN Out(d, t, Returned(Envelope(FALSE, ErrLinksDoctype)))
    ELSE Out(d, t, Returned(Envelope(TRUE, "")))

(***************************************************************************)
(* State machine: one action per tool call.  `pre` keeps the database as   *)
(* it was when the call started, `call` the arguments, the caller's        *)
(* permissions and the failing host calls, `ret` what the call returned.   *)
(***************************************************************************)

Snapshot == [db |-> db, txn |-> txn]

NoCall == [tool |-> "none"]

NoRet == [kind |-> "none", val |-> Envelope(TRUE, "")]

\* The walk of a map_relationships call in progress: the frames of
\* _map_doctype on the call stack, the shared visited set and the DocTypes
\* mapped so far, in the order they were mapped.
NoWalk == [status |-> "idle", stack |-> <<>>, visited |-> {}, mapped |-> <<>>]

\* A session makes at most MaxCalls tool calls.
MaxCalls == 2

InitCall(d) ==
    /\ db = d
    /\ txn = d
    /\ pre = [db |-> d, txn |-> d]
    /\ call = NoCall
    /\ ret = NoRet
    /\ ncalls = 0
    /\ walk = NoWalk

PropertySetter == [doc_type |-> "A", property |-> "hidden"]

\* A site with one custom field that another custom field fetches from and a
\* server script reads, a property setter, and one script of each kind.
RollbackSite ==
    Put(Put(Put(Put(Put(NoDocs,
        <<"Custom Field", "A-f">>, CustomField("A", "f", <<>>)),
        <<"Custom Field", "B-g">>, CustomField("B", "g", <<"A", ".", "f">>)),
        <<"Property Setter", "ps1">>, PropertySetter),
        <<"Server Script", "ss1">>, ServerScript(0, <<"doc", ".", "f">>)),
        <<"Client Script", "cs1">>, ClientScript(1, <<"frappe", ".", "call">>))

RollbackTargets ==
    {<<"Custom Field", "A-f">>, <<"Custom Field", "B-g">>, <<"Property Setter", "ps1">>,
     <<"Server Script", "ss1">>, <<"Client Script", "cs1">>}

\* The argument objects the tool is called with: the customizations of the
\* site with either action, and calls the argument checks reject.
RollbackArgs ==
    (RollbackTargets \X {"disable", "delete"})
    \cup {<<<<"", "ss1">>, "delete">>, <<<<"Server Script", "">>, "delete">>,
          <<<<"DocType", "A">>, "delete">>, <<<<"Server Script", "ss1">>, "purge">>}

RollbackFaults ==
    {{}} \cup {{s} : s \in {"has_permission", "exists", "get_doc", "get_all", "delete_doc"}}

RollbackChanges ==
    /\ ncalls < MaxCalls
    /\ ncalls' = ncalls + 1
    /\ walk' = walk
    /\ \E a \in RollbackArgs, F \in RollbackFaults :
         \E perm \in {{}, {<<a[1][1], "write">>}} :
           LET o == RollbackChanges_execute(db, txn, F, perm, a[1][1], a[1][2], a[2])
           IN  /\ db' = o.db
               /\ txn' = o.txn
               /\ ret' = o.ret
               /\ pre' = Snapshot
               /\ call' = [tool |-> "rollback_changes", doctype |-> a[1][1],
                           name |-> a[1][2], action |-> a[2], perm |-> perm, F |-> F]

InitRollback == InitCall(RollbackSite)

NextRollback == RollbackChanges

SpecRollback == InitRollback /\ [][NextRollback]_vars

\* A site with one DocType of its own, before any blueprint is built.
BuildSite == Put(NoDocs, <<"DocType", "A">>, DocTypeDoc(1, 1, 1, <<>>))

Step(doctype, data) == [doctype |-> doctype, data |-> data]

\* The steps blueprints are made of: a new DocType, a DocType step without a
\* name, a Custom Field named by the tool, a Workflow named by the host, a
\* step the loop skips and a step for a DocType the site does not have.
StepChoices ==
    {Step("DocType", [name |-> "X"]),
     Step("DocType", [module |-> "Custom"]),
     Step("Custom Field", [dt |-> "A", fieldname |-> "g"]),
     Step("Workflow", [workflow_name |-> "wf1"]),
     Step("Server Script", NoData),
     Step("Nope", [name |-> "n1"])}

MaxSteps == 2

Blueprints == UNION {[1..n -> StepChoices] : n \in 0..MaxSteps}

BuildFaults == Faults({"exists", "get_doc", "insert"})

BuildBlueprint ==
    /\ ncalls < MaxCalls
    /\ ncalls' = ncalls + 1
    /\ walk' = walk
    /\ \E steps \in Blueprints, dry_run \in BOOLEAN, F \in BuildFaults :
           LET o == BuildBlueprint_execute(db, txn, F, steps, dry_run)
           IN  /\ db' = o.db
               /\ txn' = o.txn
               /\ ret' = o.ret
               /\ pre' = Snapshot
               /\ call' = [tool |-> "build_blueprint", steps |-> steps,
                           dry_run |-> dry_run, F |-> F]

InitBuild == InitCall(BuildSite)

NextBuild == BuildBlueprint

SpecBuild == InitBuild /\ [][NextBuild]_vars


\* A site with a custom DocType holding one record, and one script of each
\* kind, enabled or not.
TestSites ==
    {Put(Put(Put(Put(NoDocs,
        <<"DocType", "A">>, DocTypeDoc(1, 1, 1, <<>>)),
        <<"A", "r1">>, NoData),
        <<"Server Script", "ss1">>, ServerScript(ssd, <<"doc", ".", "f">>)),
        <<"Client Script", "cs1">>, ClientScript(cse, <<"frappe", ".", "call">>)) :
     ssd \in {0, 1}, cse \in {0, 1}}

TestArgs ==
    ({<<"Server Script", "ss1">>, <<"Client Script", "cs1">>, <<"DocType", "A">>}
        \X {"exists", "validate", "render", "execute"})
    \cup {<<<<"A", "r1">>, "exists">>, <<<<"A", "r1">>, "validate">>,
          <<<<"DocType", "Nope">>, "validate">>, <<<<"", "r1">>, "exists">>,
          <<<<"A", "r1">>, "ping">>}

TestFaults ==
    Faults({"has_permission", "exists", "get_meta", "get_doc", "insert", "delete_doc"})

TestCreatedItem ==
    /\ ncalls < MaxCalls
    /\ ncalls' = ncalls + 1
    /\ walk' = walk
    /\ \E a \in TestArgs, F \in TestFaults :
         \E perm \in SUBSET {<<a[1][1], "read">>,
                             <<IF a[1][1] = "DocType" THEN a[1][2] ELSE a[1][1], "create">>} :
           LET o == TestCreatedItem_execute(db, txn, F, perm, a[1][1], a[1][2], a[2])
           IN  /\ db' = o.db
               /\ txn' = o.txn
               /\ ret' = o.ret
               /\ pre' = Snapshot
               /\ call' = [tool |-> "test_created_item", doctype |-> a[1][1],
                           name |-> a[1][2], test_type |-> a[2], perm |-> perm, F |-> F]

InitTest == \E d \in TestSites : InitCall(d)

NextTest == TestCreatedItem

SpecTest == InitTest /\ [][NextTest]_vars

\* A site whose components all need a fix (no permission on the DocType,
\* every script, workflow and notification switched off), and the same site
\* with nothing to fix.
VerifySite(on) ==
    Put(Put(Put(Put(Put(Put(NoDocs,
        <<"DocType", "A">>, DocTypeDoc(1, 1, on, <<>>)),
        <<"Custom Field", "A-f">>, CustomField("A", "f", <<>>)),
        <<"Server Script", "ss1">>, ServerScript(1 - on, <<"doc", ".", "f">>)),
        <<"Client Script", "cs1">>, ClientScript(on, <<"frappe", ".", "call">>)),
        <<"Workflow", "wf1">>, Workflow(on)),
        <<"Notification", "n1">>, Notification(on))

Component(type, name) == [type |-> type, name |-> name]

\* The components of the site, a component without a type and one of a type
\* the tool does not know.
ComponentChoices ==
    {Component("DocType", "A"), Component("Custom Field", "A-f"),
     Component("Server Script", "ss1"), Component("Client Script", "cs1"),
     Component("Workflow", "wf1"), Component("Notification", "n1"),
     Component("", "ss1"), Component("Gadget", "g1")}

MaxComponents == 2

ComponentLists == UNION {[1..n -> ComponentChoices] : n \in 0..MaxComponents}

VerifyFaults == Faults({"exists", "get_doc", "delete_doc"})

VerifyBuild ==
    /\ ncalls < MaxCalls
    /\ ncalls' = ncalls + 1
    /\ walk' = walk
    /\ \E components \in ComponentLists, auto_fix \in BOOLEAN, F \in VerifyFaults :
         LET o == VerifyBuild_execute(db, txn, F, components, auto_fix)
         IN  /\ db' = o.db
             /\ txn' = o.txn
             /\ ret' = o.ret
             /\ pre' = Snapshot
             /\ call' = [tool |-> "verify_build", components |-> components,
                         auto_fix |-> auto_fix, F |-> F]

InitVerify == \E on \in {0, 1} : InitCall(VerifySite(on))

NextVerify == VerifyBuild

SpecVerify == InitVerify /\ [][NextVerify]_vars

SeqsUpTo(S, n) == UNION {[1..k -> S] : k \in 0..n}

\* A site of four linked DocTypes A, B, C, D and a DocType W with six Link
\* fields, one more than a walk follows.
MapSite(la, lb, lc) ==
    Put(Put(Put(Put(Put(NoDocs,
        <<"DocType", "A">>, DocTypeDoc(1, 1, 1, la)),
        <<"DocType", "B">>, DocTypeDoc(1, 1, 1, lb)),
        <<"DocType", "C">>, DocTypeDoc(1, 1, 1, lc)),
        <<"DocType", "D">>, DocTypeDoc(1, 1, 1, <<>>)),
        <<"DocType", "W">>, DocTypeDoc(1, 1, 1,
            <<"A", "Workflow", "Notification", "Client Script", "Server Script", "B">>))

MaxLinks == 2

\* The link graphs: the host accepts a Link field only to a DocType it has.
MapSites ==
    {MapSite(la, lb, lc) : la \in SeqsUpTo({"A", "B", "C", Dynamic}, MaxLinks),
                           lb \in SeqsUpTo({"A", "C", "D"}, 1),
                           lc \in SeqsUpTo({"A", "D"}, 1)}

MaxDepthArg == 4

MapArgs == {"A", "W", "", "Nope"} \X (0..MaxDepthArg)

MapFaults == Faults({"exists", "get_meta"})

MapRelationships ==
    /\ ncalls < MaxCalls
    /\ ncalls' = ncalls + 1
    /\ walk' = walk
    /\ \E a \in MapArgs, F \in MapFaults :
         LET o == MapRelationships_execute(db, txn, F, a[1], a[2])
         IN  /\ db' = o.db
             /\ txn' = o.txn
             /\ ret' = o.ret
             /\ pre' = Snapshot
             /\ call' = [tool |-> "map_relationships", doctype |-> a[1],
                         depth |-> a[2], F |-> F]

InitMap == \E d \in MapSites : InitCall(d)

NextMap == MapRelationships

SpecMap == InitMap /\ [][NextMap]_vars

\* The frame of one _map_doctype invocation: the DocType being mapped, its
\* depth and the index of the next link of links_to[:5] to look at.
Frame(doctype, depth, i) == [doctype |-> doctype, depth |-> depth, i |-> i]

\* The links the loop of a frame goes through: none unless depth > 1.
FrameLinks(t, f) ==
    IF f.depth > 1 THEN Take(Meta(t, f.doctype).links, FollowCap) ELSE <<>>

\* A test of the visited set that lets every target through.
UnvisitedAlways(target, visited) == TRUE

\* `target not in visited`
Unvisited(target, visited) == target \notin visited

\* `if target and not target.startswith("DYNAMIC") and target not in visited`
Follows(target, visited) ==
    target # "" /\ target # Dynamic /\ Unvisited(target, visited)

Top == walk.stack[Len(walk.stack)]

WalkArgs == {"A", "W", "Nope"} \X (1..MaxDepthArg)

WalkFaults == Faults({"get_meta"})

\* The link graphs of the walks: every one has the cycle C -> A, and A and B
\* link to themselves, to each other or on to C.
WalkSites ==
    {MapSite(la, lb, <<"A">>) : la \in SeqsUpTo({"A", "B", "C"}, MaxLinks),
                                lb \in SeqsUpTo({"B", "C"}, 1)}

InitWalk == \E d \in WalkSites : InitCall(d)

\* execute up to its call of _map_doctype: a call that is refused, or whose
\* host call raises, ends at once; otherwise the root is marked visited and
\* its frame is entered.
WalkStart ==
    /\ ncalls < MaxCalls
    /\ walk.status # "running"
    /\ ncalls' = ncalls + 1
    /\ \E a \in WalkArgs, F \in WalkFaults :
         LET o == MapRelationships_execute(db, txn, F, a[1], a[2])
             ends == \/ a[1] = ""
                     \/ F # {}
                     \/ ~Exists(txn, "DocType", a[1])
         IN  /\ call' = [tool |-> "map_relationships", doctype |-> a[1],
                         depth |-> a[2], F |-> F]
             /\ pre' = Snapshot
             /\ ret' = IF ends THEN o.ret ELSE NoRet
             /\ walk' = IF ends THEN [NoWalk EXCEPT !.status = "done"]
                        ELSE [status |-> "running",
                              stack |-> <<Frame(a[1], Min(a[2], DepthCap), 1)>>,
                              visited |-> {a[1]},
                              mapped |-> <<a[1]>>]
             /\ UNCHANGED <<db, txn>>

\* The loop meets a target it follows: _map_doctype is entered for it.
WalkFollow ==
    /\ walk.status = "running"
    /\ Top.i <= Len(FrameLinks(txn, Top))
    /\ Follows(FrameLinks(txn, Top)[Top.i], walk.visited)
    /\ LET target == FrameLinks(txn, Top)[Top.i]
           n == Len(walk.stack)
       IN  walk' = [walk EXCEPT
                      !.stack = Append([walk.stack EXCEPT ![n].i = Top.i + 1],
                                       Frame(target, Top.depth - 1, 1)),
                      !.visited = walk.visited \cup {target},
                      !.mapped = Append(walk.mapped, target)]
    /\ UNCHANGED <<db, txn, pre, call, ret, ncalls>>

\* The loop meets a dynamic link or a DocType already visited: next link.
WalkSkip ==
    /\ walk.status = "running"
    /\ Top.i <= Len(FrameLinks(txn, Top))
    /\ ~Follows(FrameLinks(txn, Top)[Top.i], walk.visited)
    /\ walk' = [walk EXCEPT !.stack[Len(walk.stack)].i = Top.i + 1]
    /\ UNCHANGED <<db, txn, pre, call, ret, ncalls>>

\* The loop of the frame is over: _map_doctype returns, and when it was the
\* root's, execute returns the result.
WalkReturn ==
    /\ walk.status = "running"
    /\ Top.i > Len(FrameLinks(txn, Top))
    /\ LET rest == SubSeq(walk.stack, 1, Len(walk.stack) - 1)
       IN  /\ walk' = [walk EXCEPT !.stack = rest,
                                   !.status = IF rest = <<>> THEN "done" ELSE "running"]
           /\ ret' = IF rest = <<>>
                     THEN MapRelationships_execute(db, txn, call.F, call.doctype,
                                                   call.depth).ret
                     ELSE ret
    /\ UNCHANGED <<db, txn, pre, call, ncalls>>

NextWalk == WalkStart \/ WalkFollow \/ WalkSkip \/ WalkReturn

SpecWalk == InitWalk /\ [][NextWalk]_vars

\* A call that has started runs until it returns.
SpecWalkFair == SpecWalk /\ WF_vars(WalkFollow \/ WalkSkip \/ WalkReturn)


SearchRecord(text, modified) == [text |-> text, modified |-> modified]

\* The rollback site with a DocType of the site's own, a DocType of the
\* priority list and records to search.
Site ==
    Put(Put(Put(Put(Put(RollbackSite,
        <<"DocType", "A">>, DocTypeDoc(1, 1, 1, <<"Customer">>)),
        <<"DocType", "Customer">>, DocTypeDoc(0, 1, 1, <<>>)),
        <<"Customer", "c1">>, SearchRecord(<<"acme", "ltd">>, 1)),
        <<"Customer", "c2">>, SearchRecord(<<"acme", "inc">>, 2)),
        <<"A", "r1">>, SearchRecord(<<"acme">>, 3))

ReadPerms == {{}, {<<"A", "read">>, <<"Customer", "read">>, <<"Error Log", "read">>}}

FieldExplorer ==
    /\ ncalls < MaxCalls
    /\ ncalls' = ncalls + 1
    /\ walk' = walk
    /\ \E doctype \in {"A", "Nope"}, field \in {"", "f", "zz"}, perm \in ReadPerms,
          F \in Faults({"exists", "has_permission", "get_meta"}) :
         LET o == FieldExplorer_execute(db, txn, F, perm, doctype, field)
         IN  /\ db' = o.db
             /\ txn' = o.txn
             /\ ret' = o.ret
             /\ pre' = Snapshot
             /\ call' = [tool |-> "field_explorer", doctype |-> doctype,
                         field |-> field, perm |-> perm, F |-> F]

\* The limit argument: the default 20, a limit below the number of matches,
\* and the integers 0 and -1, which the schema allows as well.
Limits == {-1, 0, 1, 20}

SearchPerms == SUBSET {<<"A", "read">>, <<"Customer", "read">>}

\* The arguments of a search.  What the host does with a negative limit is
\* not in the source: a negative limit reaches it only in a single-DocType
\* search, and those calls are left out.
SearchArgs ==
    {a \in {"", "acme", "c1"} \X {"", "Customer", "Nope"} \X Limits :
        a[2] = "" \/ a[3] >= 0}

UniversalSearch ==
    /\ ncalls < MaxCalls
    /\ ncalls' = ncalls + 1
    /\ walk' = walk
    /\ \E a \in SearchArgs, perm \in SearchPerms,
          F \in Faults({"exists", "has_permission", "get_meta", "get_all"}) :
         LET o == UniversalSearch_execute(db, txn, F, perm, a[1], a[2], a[3])
         IN  /\ db' = o.db
             /\ txn' = o.txn
             /\ ret' = o.ret
             /\ pre' = Snapshot
             /\ call' = [tool |-> "universal_search", query |-> a[1],
                         doctype |-> a[2], limit |-> a[3], perm |-> perm, F |-> F]

InitSearch == InitCall(Site)

NextSearch == UniversalSearch

SpecSearch == InitSearch /\ [][NextSearch]_vars

MonitorErrors ==
    /\ ncalls < MaxCalls
    /\ ncalls' = ncalls + 1
    /\ walk' = walk
    /\ \E perm \in ReadPerms, F \in Faults({"has_permission", "get_all"}) :
         LET o == MonitorErrors_execute(db, txn, F, perm)
         IN  /\ db' = o.db
             /\ txn' = o.txn
             /\ ret' = o.ret
             /\ pre' = Snapshot
             /\ call' = [tool |-> "monitor_errors", perm |-> perm, F |-> F]

IntrospectSystem ==
    /\ ncalls < MaxCalls
    /\ ncalls' = ncalls + 1
    /\ walk' = walk
    /\ \E scope \in {"all", "links", "apps"}, doctype \in {"", "A"},
          F \in Faults({"exists", "get_meta", "get_all"}) :
         LET o == IntrospectSystem_execute(db, txn, F, scope, doctype)
         IN  /\ db' = o.db
             /\ txn' = o.txn
             /\ ret' = o.ret
             /\ pre' = Snapshot
             /\ call' = [tool |-> "introspect_system", scope |-> scope,
                         doctype |-> doctype, F |-> F]

\* hooks.py: the class paths the assistant framework discovers and serves.
assistant_tools ==
    <<"niv_tools.tools.universal_search.UniversalSearch",
      "niv_tools.tools.field_explorer.FieldExplorer",
      "niv_tools.tools.test_created_item.TestCreatedItem",
      "niv_tools.tools.monitor_errors.MonitorErrors",
      "niv_tools.tools.rollback_changes.RollbackChanges",
      "niv_tools.tools.introspect_system.IntrospectSystem",
      "niv_tools.tools.map_relationships.MapRelationships">>

\* install.py: the class paths after_install imports to validate them.
TOOL_PATHS ==
    <<"niv_tools.tools.universal_search.UniversalSearch",
      "niv_tools.tools.field_explorer.FieldExplorer",
      "niv_tools.tools.test_created_item.TestCreatedItem",
      "niv_tools.tools.monitor_errors.MonitorErrors",
      "niv_tools.tools.rollback_changes.RollbackChanges",
      "niv_tools.tools.introspect_system.IntrospectSystem",
      "niv_tools.tools.map_relationships.MapRelationships",
      "niv_tools.tools.build_blueprint.BuildBlueprint",
      "niv_tools.tools.verify_build.VerifyBuild">>

\* The class of the tool with the given name.
ClassPath(tool) ==
    CASE tool = "universal_search" -> "niv_tools.tools.universal_search.UniversalSearch"
      [] tool = "field_explorer" -> "niv_tools.tools.field_explorer.FieldExplorer"
      [] tool = "test_created_item" -> "niv_tools.tools.test_created_item.TestCreatedItem"
      [] tool = "monitor_errors" -> "niv_tools.tools.monitor_errors.MonitorErrors"
      [] tool = "rollback_changes" -> "niv_tools.tools.rollback_changes.RollbackChanges"
      [] tool = "introspect_system" -> "niv_tools.tools.introspect_system.IntrospectSystem"
      [] tool = "map_relationships" -> "niv_tools.tools.map_relationships.MapRelationships"
      [] tool = "build_blueprint" -> "niv_tools.tools.build_blueprint.BuildBlueprint"
      [] tool = "verify_build" -> "niv_tools.tools.verify_build.VerifyBuild"

\* The nine tools of the app on one site.
Init == InitCall(Site)

Next ==
    \/ FieldExplorer
    \/ UniversalSearch
    \/ MonitorErrors
    \/ IntrospectSystem
    \/ MapRelationships
    \/ RollbackChanges
    \/ TestCreatedItem
    \/ BuildBlueprint
    \/ VerifyBuild

Spec == Init /\ [][Next]_vars



(***************************************************************************)
(* Properties                                                              *)
(***************************************************************************)

IsRollback(action) ==
    /\ call.tool = "rollback_changes"
    /\ call.action = action
    /\ ret.kind = "return"

CallKey == <<call.doctype, call.name>>

CanWrite == <<call.doctype, "write">> \in call.perm

IsScript(doctype) == doctype \in {"Client Script", "Server Script"}

\* A Server Script is enabled while disabled = 0, a Client Script while enabled = 1.
ScriptEnabled(doctype, doc) ==
    IF doctype = "Server Script" THEN doc.disabled = 0 ELSE doc.enabled = 1

\* C4: once rollback_changes action=disable has returned success for a Client
\* Script or Server Script, the next rollback_changes call, when it is
\* action=delete on the same script with write permission and no host call
\* fails, returns success and the script no longer exists.
C4_DisableThenDelete ==
    [][(/\ IsRollback("disable")
        /\ IsScript(call.doctype)
        /\ ret.val.success
        /\ call'.tool = "rollback_changes"
        /\ call'.action = "delete"
        /\ call'.doctype = call.doctype
        /\ call'.name = call.name
        /\ <<call'.doctype, "write">> \in call'.perm
        /\ call'.F = {})
       => (/\ ret'.kind = "return"
           /\ ret'.val.success
           /\ ~Exists(txn', call.doctype, call.name)
           /\ ~Exists(db', call.doctype, call.name))]_vars

\* C5: a delete request on a Client Script or Server Script that is enabled
\* is refused and the script still exists afterwards, committed and in the
\* session; when the request passes the permission and existence checks the
\* refusal is 'Script is still enabled'.
C5_EnabledScriptNotDeleted ==
    (/\ IsRollback("delete")
     /\ IsScript(call.doctype)
     /\ CallKey \in DOMAIN pre.txn
     /\ ScriptEnabled(call.doctype, pre.txn[CallKey]))
    => (/\ ~ret.val.success
        /\ CallKey \in DOMAIN txn
        /\ CallKey \in DOMAIN db
        /\ (CanWrite /\ call.F = {} => ret.val.error = ErrStillEnabled))

C5_Witness ==
    /\ IsRollback("delete")
    /\ IsScript(call.doctype)
    /\ CallKey \in DOMAIN pre.txn
    /\ ScriptEnabled(call.doctype, pre.txn[CallKey])
    /\ ret.val.error = ErrStillEnabled
    /\ CallKey \in DOMAIN db

\* The customizations that reference custom field `key` in database `t`:
\* another Custom Field whose fetch_from names "<dt>.<fieldname>", or an
\* enabled Server Script whose code names the field.
Referenced(t, key) ==
    \/ \E n \in Names(t, "Custom Field") \ {key[2]} :
         Like(t[<<"Custom Field", n>>].fetch_from, <<t[key].dt, ".", t[key].fieldname>>)
    \/ \E n \in Names(t, "Server Script") :
         /\ t[<<"Server Script", n>>].disabled = 0
         /\ Like(t[<<"Server Script", n>>].script, <<t[key].fieldname>>)

\* C6: a delete request (with write permission) on a Custom Field that is
\* referenced by another Custom Field's fetch_from or by an enabled Server
\* Script's code is refused and the Custom Field still exists afterwards.
C6_ReferencedFieldNotDeleted ==
    (/\ IsRollback("delete")
     /\ call.doctype = "Custom Field"
     /\ CanWrite
     /\ CallKey \in DOMAIN pre.txn
     /\ Referenced(pre.txn, CallKey))
    => (/\ ~ret.val.success
        /\ CallKey \in DOMAIN txn)

IsBuild == call.tool = "build_blueprint" /\ ret.kind = "return" /\ ret.val.error = ""

Skipped(step) == step.doctype = "" \/ step.data = NoData

\* C2: a build_blueprint call with dry_run true leaves the host database as
\* it was, committed and in the session (nothing inserted, nothing
\* committed), and the log it returns has one entry per step, each
\* non-skipped step logged VALID or INVALID and nothing else.
C2_DryRunChangesNothing ==
    (call.tool = "build_blueprint" /\ call.dry_run)
    => (/\ db = pre.db
        /\ txn = pre.txn
        /\ IsBuild =>
             /\ Len(ret.val.build_log) = Len(call.steps)
             /\ \A i \in 1..Len(call.steps) :
                  IF Skipped(call.steps[i])
                  THEN ret.val.build_log[i].status = "SKIPPED"
                  ELSE ret.val.build_log[i].status \in {"VALID", "INVALID"})

C2_Witness ==
    /\ IsBuild
    /\ call.dry_run
    /\ Len(call.steps) = 2
    /\ ret.val.build_log[1].status = "VALID"
    /\ ret.val.build_log[2].status = "INVALID"
    /\ call.steps[1].doctype = "DocType"
    /\ ~Exists(txn, "DocType", "X")

\* C3: a build_blueprint step is logged with status SUCCESS and name n only
\* if a document of the step's doctype with name n exists in the host
\* database (nothing the tool does removes it before the call returns).
C3_SuccessMeansCreated ==
    (IsBuild /\ ~call.dry_run)
    => \A i \in 1..Len(call.steps) :
         ret.val.build_log[i].status = "SUCCESS"
         => Exists(txn, call.steps[i].doctype, ret.val.build_log[i].name)

IsTest(test_type) ==
    /\ call.tool = "test_created_item"
    /\ call.test_type = test_type
    /\ ret.kind = "return"

\* C7: after a test_created_item call with test_type=validate the records of
\* the target DocType are those from before the call, committed and in the
\* session, whether the test record was created and deleted, its insert
\* failed, or the clean-up delete failed.
C7_ValidateLeavesNoRecord ==
    IsTest("validate") => (db = pre.db /\ txn = pre.txn)

\* The clean-up delete failed after the test record was inserted.
C7_Witness ==
    /\ IsTest("validate")
    /\ call.F = {"delete_doc"}
    /\ ret.val.error = ErrValidation
    /\ <<call.doctype, "read">> \in call.perm
    /\ db = pre.db

ComponentTypes ==
    {"DocType", "Custom Field", "Server Script", "Client Script", "Workflow",
     "Report", "Notification", "Print Format", "Property Setter"}

\* The components of database d: its documents of the types verify_build tests.
Components(d) == [k \in {x \in DOMAIN d : x[1] \in ComponentTypes} |-> d[k]]

\* C8: a verify_build call with auto_fix false modifies no component: the
\* DocTypes (their permissions), Server Scripts, Client Scripts, Workflows and
\* Notifications (their disabled / enabled / is_active flags) and every other
\* component are after the call what they were before it, committed and in
\* the session, for every list of components.
C8_NoAutoFixModifiesNothing ==
    (call.tool = "verify_build" /\ ~call.auto_fix)
    => (/\ Components(txn) = Components(pre.txn)
        /\ Components(db) = Components(pre.db))

\* Without auto_fix the call met a disabled Server Script and a DocType
\* without permissions, reported both as failed and left them as they were.
C8_Witness ==
    /\ call.tool = "verify_build"
    /\ ~call.auto_fix
    /\ call.F = {}
    /\ call.components = <<Component("Server Script", "ss1"), Component("DocType", "A")>>
    /\ ret.val.results = <<"FAIL", "FAIL">>
    /\ txn[<<"Server Script", "ss1">>].disabled = 1
    /\ txn[<<"DocType", "A">>].perms = 0

IsMap == call.tool = "map_relationships" /\ ret.kind = "return" /\ ret.val.error = ""

\* The number of levels of linked_doctypes_detail nested in a result.
RECURSIVE Levels(_)
Levels(result) ==
    IF DOMAIN result.detail = {} THEN 0
    ELSE LET below == {Levels(result.detail[k]) : k \in DOMAIN result.detail}
         IN  1 + CHOOSE n \in below : \A m \in below : m <= n

\* C9: for every depth argument and every link graph the result of
\* map_relationships nests linked_doctypes_detail at most 2 levels below the
\* root DocType, and with depth 1 or lower it has no linked_doctypes_detail.
C9_DepthCapped ==
    IsMap => (/\ Levels(ret.val.result) <= 2
              /\ call.depth <= 1 => Levels(ret.val.result) = 0)

\* A depth above the cap on a chain A -> B -> C -> D: D, three links away,
\* is not mapped.
C9_Witness ==
    /\ IsMap
    /\ call.depth > DepthCap
    /\ call.doctype = "A"
    /\ Levels(ret.val.result) = 2
    /\ txn[<<"DocType", "A">>].links = <<"B">>
    /\ txn[<<"DocType", "B">>].links = <<"C">>
    /\ txn[<<"DocType", "C">>].links = <<"D">>
    /\ ret.val.result.detail["B"].detail["C"].detail = NoDetail

\* The link targets the walk follows from the root: the first five, without
\* dynamic links and links of the root to itself.
Followed(t, doctype) ==
    LET links_to == Take(t[<<"DocType", doctype>>].links, FollowCap)
    IN  {links_to[i] : i \in 1..Len(links_to)} \ {Dynamic, doctype}

\* C10: with depth >= 2 every DocType directly linked from the root and
\* followed is a key of the root's linked_doctypes_detail (the direct targets
\* are mapped before any DocType two links away).
C10_BreadthFirst ==
    (IsMap /\ call.depth >= 2)
    => \A target \in Followed(pre.txn, call.doctype) :
         target \in DOMAIN ret.val.result.detail

\* C1: whatever the arguments and whichever host call fails, no call of any of
\* the nine tools ends with an exception: execute returns an envelope.
C1_NoExceptionEscapes == ret.kind # "raise"

NoDuplicates(seq) == \A i, j \in 1..Len(seq) : seq[i] = seq[j] => i = j

\* The DocTypes a result of _map_doctype holds a mapping of.
RECURSIVE NodeSet(_)
NodeSet(result) ==
    {result.doctype} \cup UNION {NodeSet(result.detail[k]) : k \in DOMAIN result.detail}

\* C11: on every link graph, cycles and self-links included, a
\* map_relationships call that has started returns, and at every moment of
\* the walk no DocType has been mapped twice.
C11_WalkTerminatesOnce ==
    /\ [](NoDuplicates(walk.mapped))
    /\ (walk.status = "running") ~> (walk.status = "done")

\* A walk over self-links (A -> A, B and B -> B) has returned
\* with A and B mapped once each.
C11_Witness ==
    /\ walk.status = "done"
    /\ walk.mapped = <<"A", "B">>
    /\ txn[<<"DocType", "A">>].links = <<"A", "B">>
    /\ txn[<<"DocType", "B">>].links = <<"B">>
    /\ call.depth >= DepthCap
    /\ NodeSet(ret.val.result) = {"A", "B"}

IsSearch ==
    /\ call.tool = "universal_search"
    /\ ret.kind = "return"
    /\ ret.val.success

\* C12: a universal_search call that succeeds, global or on a single DocType,
\* returns at most `limit` results, and the count it reports is the length
\* of the results list.
C12_AtMostLimitResults ==
    IsSearch => (/\ Len(ret.val.results) <= call.limit
                 /\ ret.val.count = Len(ret.val.results))

\* C13: every record a global search returns is of a DocType that exists and
\* that the caller may read, and a single-DocType search that returns for a
\* DocType the caller may not read returns success False and no results.
C13_OnlyAccessibleDocuments ==
    (call.tool = "universal_search" /\ ret.kind = "return")
    => (/\ call.doctype = "" =>
             \A i \in 1..Len(ret.val.results) :
                 /\ Exists(pre.txn, "DocType", ret.val.results[i][1])
                 /\ <<ret.val.results[i][1], "read">> \in call.perm
        /\ (call.doctype # "" /\ <<call.doctype, "read">> \notin call.perm) =>
             (~ret.val.success /\ ret.val.results = <<>>))

\* A global search by a caller who may read A but not Customer: both hold
\* the query, only the record of A is returned.
C13_Witness ==
    /\ IsSearch
    /\ call.doctype = ""
    /\ call.query = "acme"
    /\ call.limit = 20
    /\ call.perm = {<<"A", "read">>}
    /\ Matching(pre.txn, "Customer", "acme") # {}
    /\ ret.val.results = <<<<"A", "r1">>>>

\* C14: the class paths registered in hooks.assistant_tools are the nine
\* class paths of install.TOOL_PATHS, and so every tool of the app a session
\* calls is one the hook exposes to the caller.
C14_HooksRegisterAllTools ==
    /\ Range(assistant_tools) = Range(TOOL_PATHS)
    /\ call.tool # "none" => ClassPath(call.tool) \in Range(assistant_tools)

\* C15: a test_created_item call with test_type=exists on a Client Script or
\* Server Script reports info.enabled true exactly when the script is enabled:
\* a Server Script when disabled is 0, a Client Script when enabled is 1.
C15_ExistsReportsEnabled ==
    (IsTest("exists") /\ IsScript(call.doctype) /\ ret.val.success)
    => (ret.val.info.enabled <=> ScriptEnabled(call.doctype, pre.txn[CallKey]))

====
